---- MODULE Spec2Model ----
(***************************************************************************)
(* Model of the crawl phase of unreleasedcommits (main.go): runCrawl,      *)
(* listPublicRepos, checkLatestRelease, compareAllCommits and writeJSON.   *)
(* The remote source (the GitHub API behind go-github) and the file system *)
(* are the environment: the remote is fixed when a crawl starts, the disk  *)
(* is the state the crawl changes.                                         *)
(***************************************************************************)
EXTENDS Integers, Sequences, FiniteSets, TLC

VARIABLES
    remote,          \* the organization as the remote source serves it
    limit,           \* the -limit flag
    disk,            \* path -> content of every file that exists under data/
    disk0,           \* the disk as it was when the crawl started
    clock,           \* time.Now()
    pc,              \* position of runCrawl
    repos,           \* the enumeration listPublicRepos returned
    i,               \* loop index of "for i, repo := range repos" (1-based)
    releaseData,     \* runCrawl's releaseData
    repoDetail,      \* runCrawl's repoDetail
    commits,         \* runCrawl's commits (result of compareAllCommits)
    repoData,        \* runCrawl's repoData
    processedCount,  \* runCrawl's processedCount
    out,             \* the lines printed so far
    requests,        \* the remote requests issued so far
    run,             \* which invocation of the program this is (1: the first)
    snapshots,       \* runGenerate's allRepos: the Snapshots loaded, by name
    index,           \* the data generateIndexPage hands to index.html
    repoPages        \* the data generateRepoPage handed to each <name>.html

vars == <<remote, limit, disk, disk0, clock, pc, repos, i, releaseData,
          repoDetail, commits, repoData, processedCount, out, requests,
          run, snapshots, index, repoPages>>

\* what runGenerate works on
rendering == <<snapshots, index, repoPages>>

-----------------------------------------------------------------------------
(* Bounds of the model *)

MaxRepos == 3
MaxCommits == 3
MaxMixed == 2
MaxPages == 2
MaxRuns == 2
MaxRecrawlRepos == 2
MaxSnapshots == 3

(* Program constants *)

ListPerPage == 100
perPage == 100

outputDir == "data"

-----------------------------------------------------------------------------
(* Values *)

Nil == [nil |-> TRUE]

Min(a, b) == IF a < b THEN a ELSE b

\* go-github's nil-safe getters: the zero value for a nil receiver
GetLogin(u) == IF u = Nil THEN "" ELSE u.Login
GetName(a) == IF a = Nil THEN "" ELSE a.Name
GetDate(a) == IF a = Nil THEN 0 ELSE a.Date
GetMessage(c) == IF c = Nil THEN "" ELSE c.Message
GetTagName(r) == IF r = Nil THEN "" ELSE r.TagName
GetPublishedAt(r) == IF r = Nil THEN 0 ELSE r.PublishedAt

-----------------------------------------------------------------------------
(* The remote source: a paginated listing. Page 0 is the first page, as    *)
(* for an unset ListOptions.Page.                                          *)

ServePage(items, page, pp) ==
    LET p == IF page = 0 THEN 1 ELSE page
        lo == (p - 1) * pp + 1
        hi == Min(p * pp, Len(items))
    IN [items |-> SubSeq(items, lo, hi),
        NextPage |-> IF p * pp < Len(items) THEN p + 1 ELSE 0]

-----------------------------------------------------------------------------
(* listPublicRepos: the loop, from the state it has before a page request. *)
(* failAt is the number of the request the remote fails (0: none); nreq    *)
(* counts the requests made so far; pages are the page numbers requested.  *)

\* the loop with "len(allRepos) > limit" for ">= limit"
RECURSIVE listPublicReposLoopOverLimit(_, _, _, _, _, _, _)
listPublicReposLoopOverLimit(src, lim, failAt, allRepos, page, nreq, pages) ==
    IF failAt = nreq + 1
    THEN [repos |-> <<>>, err |-> TRUE, pages |-> Append(pages, page)]
    ELSE LET resp == ServePage(src, page, ListPerPage)
             all2 == allRepos \o resp.items
         IN IF lim > 0 /\ Len(all2) > lim
            THEN [repos |-> SubSeq(all2, 1, lim), err |-> FALSE,
                  pages |-> Append(pages, page)]
            ELSE IF resp.NextPage = 0
            THEN [repos |-> IF lim > 0 THEN SubSeq(all2, 1, Min(lim, Len(all2))) ELSE all2,
                  err |-> FALSE, pages |-> Append(pages, page)]
            ELSE listPublicReposLoopOverLimit(src, lim, failAt, all2, resp.NextPage,
                                              nreq + 1, Append(pages, page))

\* the loop with "break" on a failed page request for "return nil, err"
RECURSIVE listPublicReposLoopPartial(_, _, _, _, _, _, _)
listPublicReposLoopPartial(src, lim, failAt, allRepos, page, nreq, pages) ==
    IF failAt = nreq + 1
    THEN [repos |-> allRepos, err |-> FALSE, pages |-> Append(pages, page)]
    ELSE LET resp == ServePage(src, page, ListPerPage)
             all2 == allRepos \o resp.items
         IN IF lim > 0 /\ Len(all2) >= lim
            THEN [repos |-> SubSeq(all2, 1, lim), err |-> FALSE,
                  pages |-> Append(pages, page)]
            ELSE IF resp.NextPage = 0
            THEN [repos |-> all2, err |-> FALSE, pages |-> Append(pages, page)]
            ELSE listPublicReposLoopPartial(src, lim, failAt, all2, resp.NextPage,
                                            nreq + 1, Append(pages, page))

RECURSIVE listPublicReposLoop(_, _, _, _, _, _, _)
listPublicReposLoop(src, lim, failAt, allRepos, page, nreq, pages) ==
    IF failAt = nreq + 1
    THEN [repos |-> <<>>, err |-> TRUE, pages |-> Append(pages, page)]
    ELSE LET resp == ServePage(src, page, ListPerPage)
             all2 == allRepos \o resp.items
         IN IF lim > 0 /\ Len(all2) >= lim
            THEN [repos |-> SubSeq(all2, 1, lim), err |-> FALSE,
                  pages |-> Append(pages, page)]
            ELSE IF resp.NextPage = 0
            THEN [repos |-> all2, err |-> FALSE, pages |-> Append(pages, page)]
            ELSE listPublicReposLoop(src, lim, failAt, all2, resp.NextPage,
                                     nreq + 1, Append(pages, page))

listPublicRepos(src, lim, failAt) ==
    listPublicReposLoop(src, lim, failAt, <<>>, 0, 0, <<>>)

(* checkLatestRelease: res is what GetLatestRelease returned *)

\* checkLatestRelease without the test of the tag name
checkLatestReleaseAnyTag(res) ==
    IF res.err \/ res.rel = Nil
    THEN [hasRelease |-> FALSE, rel |-> Nil]
    ELSE [hasRelease |-> TRUE, rel |-> res.rel]

checkLatestRelease(res) ==
    IF res.err \/ res.rel = Nil \/ GetTagName(res.rel) = ""
    THEN [hasRelease |-> FALSE, rel |-> Nil]
    ELSE [hasRelease |-> TRUE, rel |-> res.rel]

(* compareAllCommits: the loop, as for listPublicReposLoop *)

\* the loop that goes on while pages are full, whatever NextPage says
RECURSIVE compareAllCommitsLoopByLength(_, _, _, _, _, _)
compareAllCommitsLoopByLength(src, failAt, all, page, nreq, pages) ==
    IF failAt = nreq + 1
    THEN [commits |-> <<>>, err |-> TRUE, pages |-> Append(pages, page)]
    ELSE LET resp == ServePage(src, page, perPage)
             all2 == all \o resp.items
         IN IF Len(resp.items) < perPage
            THEN [commits |-> all2, err |-> FALSE, pages |-> Append(pages, page)]
            ELSE compareAllCommitsLoopByLength(src, failAt, all2, page + 1,
                                               nreq + 1, Append(pages, page))

RECURSIVE compareAllCommitsLoop(_, _, _, _, _, _)
compareAllCommitsLoop(src, failAt, all, page, nreq, pages) ==
    IF failAt = nreq + 1
    THEN [commits |-> <<>>, err |-> TRUE, pages |-> Append(pages, page)]
    ELSE LET resp == ServePage(src, page, perPage)
             all2 == all \o resp.items
         IN IF resp.NextPage = 0 \/ Len(resp.items) < perPage
            THEN [commits |-> all2, err |-> FALSE, pages |-> Append(pages, page)]
            ELSE compareAllCommitsLoop(src, failAt, all2, resp.NextPage,
                                       nreq + 1, Append(pages, page))

compareAllCommits(src, failAt) ==
    compareAllCommitsLoop(src, failAt, <<>>, 1, 0, <<>>)

(* writeJSON: os.Create truncates the file, then the encoder fills it.     *)
(* fault is what the file system does to this write.                       *)

Truncated == [truncated |-> TRUE]

Put(fs, filename, data) ==
    [p \in DOMAIN fs \cup {filename} |-> IF p = filename THEN data ELSE fs[p]]

writeJSON(fs, filename, data, fault) ==
    CASE fault = "createfail" -> [fs |-> fs, err |-> TRUE]
      [] fault = "encodefail" -> [fs |-> Put(fs, filename, Truncated), err |-> TRUE]
      [] OTHER -> [fs |-> Put(fs, filename, data), err |-> FALSE]

-----------------------------------------------------------------------------
(* The body of runCrawl's loop over the commits of one repository *)

resolveAuthor(c) ==
    IF c.Author # Nil /\ GetLogin(c.Author) # ""
    THEN GetLogin(c.Author)
    ELSE IF c.Commit # Nil /\ c.Commit.Author # Nil /\ GetName(c.Commit.Author) # ""
    THEN GetName(c.Commit.Author)
    ELSE "unknown"

\* c.Commit.Author on a nil c.Commit is a nil pointer dereference
Panics(c) == c.Commit = Nil

toCommitInfo(c) ==
    [SHA |-> c.SHA,
     Author |-> resolveAuthor(c),
     Message |-> GetMessage(c.Commit),
     Timestamp |-> GetDate(c.Commit.Author),
     URL |-> c.HTMLURL]

\* the in-place reversal "for i, j := 0, len-1; i < j; i, j = i+1, j-1": the
\* iterations are the lo with lo < hi, hi = Len(s) + 1 - lo, each swapping
\* s[lo] and s[hi]
swappedShort(s) == {lo \in 1..Len(s) : lo + 1 < Len(s) + 1 - lo}

swapped(s) == {lo \in 1..Len(s) : lo < Len(s) + 1 - lo}

reverseCommits(s) ==
    [k \in 1..Len(s) |->
        IF k \in swapped(s) \/ (Len(s) + 1 - k) \in swapped(s)
        THEN s[Len(s) + 1 - k]
        ELSE s[k]]

normalize(raw) == reverseCommits([k \in 1..Len(raw) |-> toCommitInfo(raw[k])])

\* the file named after the owner, not the repository
snapshotPathOfOwner(repoName) == outputDir \o "/" \o "org" \o ".json"

snapshotPath(repoName) == outputDir \o "/" \o repoName \o ".json"
timestampPath == outputDir \o "/" \o "timestamp.json"

-----------------------------------------------------------------------------
(* Printed lines and remote requests *)

Line(kind, repo, n) == [kind |-> kind, repo |-> repo, n |-> n]

Request(api, repo, page, base, head) ==
    [api |-> api, repo |-> repo, page |-> page, base |-> base, head |-> head]

PageRequests(api, repo, pages, base, head) ==
    [k \in 1..Len(pages) |-> Request(api, repo, pages[k], base, head)]

-----------------------------------------------------------------------------
(* runCrawl *)

owner == "org"

\* the end of one iteration of "for i, repo := range repos"
NextRepo ==
    /\ i' = i + 1
    /\ pc' = IF i + 1 > Len(repos) THEN "timestamp" ELSE "release"
    /\ releaseData' = Nil
    /\ repoDetail' = Nil
    /\ commits' = <<>>
    /\ repoData' = Nil

\* token check, MkdirAll, listPublicRepos, "Found %d public repositories"
Enumerate ==
    /\ pc = "start"
    /\ \E env \in {"ok", "notoken", "mkdirfail"} :
         IF env # "ok"
         THEN /\ pc' = "fatal"
              /\ out' = Append(out, Line(env, "", 0))
              /\ UNCHANGED <<repos, requests>>
         ELSE LET r == listPublicRepos(remote.names, limit, remote.listFailAt)
              IN /\ requests' = requests \o PageRequests("ListByOrg", "", r.pages, "", "")
                 /\ IF r.err
                    THEN /\ pc' = "fatal"
                         /\ out' = Append(out, Line("listfail", "", 0))
                         /\ UNCHANGED repos
                    ELSE /\ repos' = r.repos
                         /\ out' = Append(out, Line("found", "", Len(r.repos)))
                         /\ pc' = IF Len(r.repos) = 0 THEN "timestamp" ELSE "release"
    /\ processedCount' = 0
    /\ i' = 1
    /\ UNCHANGED <<remote, limit, disk, disk0, clock, releaseData, repoDetail,
                   commits, repoData>>
    /\ UNCHANGED <<run, rendering>>

\* "Processing", checkLatestRelease, "Skipping"
CheckRelease ==
    /\ pc = "release"
    /\ LET repoName == repos[i]
           cr == checkLatestRelease(remote.data[repoName].release)
       IN /\ requests' = Append(requests,
                                Request("GetLatestRelease", repoName, 0, "", ""))
          /\ IF ~cr.hasRelease
             THEN /\ out' = out \o <<Line("processing", repoName, i),
                                     Line("skip", repoName, i)>>
                  /\ NextRepo
             ELSE /\ out' = Append(out, Line("processing", repoName, i))
                  /\ releaseData' = cr.rel
                  /\ pc' = "detail"
                  /\ UNCHANGED <<i, repoDetail, commits, repoData>>
    /\ UNCHANGED <<remote, limit, disk, disk0, clock, repos, processedCount>>
    /\ UNCHANGED <<run, rendering>>

\* GetDetail with log.Fatalf in place of "continue"
GetDetailAborts ==
    /\ pc = "detail"
    /\ LET repoName == repos[i]
           res == remote.data[repoName].detail
       IN /\ requests' = Append(requests, Request("Get", repoName, 0, "", ""))
          /\ IF res.err
             THEN /\ out' = Append(out, Line("errdetail", repoName, i))
                  /\ pc' = "fatal"
                  /\ UNCHANGED repoDetail
             ELSE /\ repoDetail' = res.repo
                  /\ pc' = "compare"
                  /\ UNCHANGED out
    /\ UNCHANGED <<remote, limit, disk, disk0, clock, repos, processedCount, i,
                   releaseData, commits, repoData>>
    /\ UNCHANGED <<run, rendering>>

\* client.Repositories.Get
GetDetail ==
    /\ pc = "detail"
    /\ LET repoName == repos[i]
           res == remote.data[repoName].detail
       IN /\ requests' = Append(requests, Request("Get", repoName, 0, "", ""))
          /\ IF res.err
             THEN /\ out' = Append(out, Line("errdetail", repoName, i))
                  /\ NextRepo
             ELSE /\ repoDetail' = res.repo
                  /\ pc' = "compare"
                  /\ UNCHANGED <<out, i, releaseData, commits, repoData>>
    /\ UNCHANGED <<remote, limit, disk, disk0, clock, repos, processedCount>>
    /\ UNCHANGED <<run, rendering>>

\* "Latest release", compareAllCommits
Compare ==
    /\ pc = "compare"
    /\ LET repoName == repos[i]
           defaultBranch == repoDetail.DefaultBranch
           tagName == GetTagName(releaseData)
           r == compareAllCommits(remote.data[repoName].commits,
                                  remote.data[repoName].compareFailAt)
       IN /\ requests' = requests \o PageRequests("CompareCommits", repoName,
                                                  r.pages, tagName, defaultBranch)
          /\ IF r.err
             THEN /\ out' = out \o <<Line("latest", repoName, i),
                                     Line("errcompare", repoName, i)>>
                  /\ NextRepo
             ELSE /\ out' = Append(out, Line("latest", repoName, i))
                  /\ commits' = r.commits
                  /\ pc' = "normalize"
                  /\ UNCHANGED <<i, releaseData, repoDetail, repoData>>
    /\ UNCHANGED <<remote, limit, disk, disk0, clock, repos, processedCount>>
    /\ UNCHANGED <<run, rendering>>

\* the loop over commits, the reversal, repoData
Normalize ==
    /\ pc = "normalize"
    /\ IF \E k \in 1..Len(commits) : Panics(commits[k])
       THEN /\ pc' = "panic"
            /\ UNCHANGED repoData
       ELSE /\ repoData' = [Owner |-> owner,
                            Name |-> repos[i],
                            DefaultBranch |-> repoDetail.DefaultBranch,
                            LatestReleaseTag |-> GetTagName(releaseData),
                            LatestReleaseTime |-> GetPublishedAt(releaseData),
                            UnreleasedCommits |-> normalize(commits),
                            RepositoryURL |-> repoDetail.HTMLURL]
            /\ pc' = "write"
    /\ UNCHANGED <<remote, limit, disk, disk0, clock, repos, i, releaseData,
                   repoDetail, commits, processedCount, out, requests>>
    /\ UNCHANGED <<run, rendering>>

\* writeJSON of the Snapshot, "Saved", processedCount++
WriteSnapshot ==
    /\ pc = "write"
    /\ LET repoName == repos[i]
           w == writeJSON(disk, snapshotPath(repoName), repoData,
                          remote.data[repoName].write)
       IN /\ disk' = w.fs
          /\ IF w.err
             THEN /\ out' = Append(out, Line("errwrite", repoName, i))
                  /\ UNCHANGED processedCount
             ELSE /\ out' = Append(out, Line("saved", repoName, i))
                  /\ processedCount' = processedCount + 1
          /\ NextRepo
    /\ UNCHANGED <<remote, limit, disk0, clock, repos, requests>>
    /\ UNCHANGED <<run, rendering>>

\* time.Now, writeJSON of the Crawl Timestamp, "Crawl complete"
WriteTimestamp ==
    /\ pc = "timestamp"
    /\ \E fault \in {"ok", "createfail", "encodefail"} :
         LET crawlTime == clock
             w == writeJSON(disk, timestampPath, [LastCrawled |-> crawlTime], fault)
         IN /\ disk' = w.fs
            /\ out' = out \o <<Line(IF w.err THEN "warntimestamp" ELSE "timestamp",
                                    "", crawlTime),
                               Line("complete", "", processedCount)>>
    /\ clock' = clock + 1
    /\ pc' = "done"
    /\ UNCHANGED <<remote, limit, disk0, repos, i, releaseData, repoDetail,
                   commits, repoData, processedCount, requests>>
    /\ UNCHANGED <<run, rendering>>

Next ==
    \/ Enumerate
    \/ CheckRelease
    \/ GetDetail
    \/ Compare
    \/ Normalize
    \/ WriteSnapshot
    \/ WriteTimestamp

-----------------------------------------------------------------------------
(* The remote states and disks a crawl is started on *)

RelOk == [err |-> FALSE, rel |-> [TagName |-> "v1", PublishedAt |-> 5]]
RelErr == [err |-> TRUE, rel |-> Nil]
RelNil == [err |-> FALSE, rel |-> Nil]
RelEmptyTag == [err |-> FALSE, rel |-> [TagName |-> "", PublishedAt |-> 5]]

Logins == {Nil, [Login |-> ""], [Login |-> "alice"]}

CommitMetas(k) ==
    {Nil,
     [Message |-> "m", Author |-> Nil],
     [Message |-> "m", Author |-> [Name |-> "", Date |-> 10 + k]],
     [Message |-> "m", Author |-> [Name |-> "Bob", Date |-> 10 + k]]}

RawCommit(k, author, meta) ==
    [SHA |-> "c" \o ToString(k), Author |-> author, Commit |-> meta,
     HTMLURL |-> "u" \o ToString(k)]

\* n commits, oldest first, each with a login and a differing name
PlainCommits(n) ==
    [k \in 1..n |->
        RawCommit(k, [Login |-> "alice"],
                  [Message |-> "m",
                   Author |-> [Name |-> "Alice Smith", Date |-> 10 + k]])]

\* every list of n commits, oldest first, over every shape of author data
AllCommitLists(n) ==
    {[k \in 1..n |-> RawCommit(k, f[k][1], f[k][2])] :
        f \in [1..n -> Logins \X CommitMetas(0)]}

Redate(raw) ==
    [k \in 1..Len(raw) |->
        IF raw[k].Commit = Nil \/ raw[k].Commit.Author = Nil
        THEN raw[k]
        ELSE [raw[k] EXCEPT !.Commit.Author.Date = 10 + k]]

\* what the remote and the file system do for one repository
Shape(release, detailErr, raw, compareFailAt, write) ==
    [release |-> release, detailErr |-> detailErr, raw |-> raw,
     compareFailAt |-> compareFailAt, write |-> write]

Repo(name, release, detailErr, raw, compareFailAt, write) ==
    [release |-> release,
     detail |-> [err |-> detailErr,
                 repo |-> [DefaultBranch |-> "main", HTMLURL |-> "h/" \o name]],
     commits |-> raw,
     compareFailAt |-> compareFailAt,
     write |-> write]

MakeRepo(name, sh) ==
    Repo(name, sh.release, sh.detailErr, sh.raw, sh.compareFailAt, sh.write)

\* the shapes the repositories of an organization of several take
CoreShapes ==
    {Shape(RelErr, FALSE, <<>>, 0, "ok"),
     Shape(RelEmptyTag, FALSE, <<>>, 0, "ok"),
     Shape(RelOk, TRUE, <<>>, 0, "ok"),
     Shape(RelOk, FALSE, PlainCommits(MaxCommits), 1, "ok"),
     Shape(RelOk, FALSE, <<>>, 0, "ok"),
     Shape(RelOk, FALSE, PlainCommits(MaxCommits), 0, "ok"),
     Shape(RelOk, FALSE, PlainCommits(1), 0, "encodefail"),
     Shape(RelOk, FALSE, <<RawCommit(1, [Login |-> "alice"], Nil)>>, 0, "ok")}

\* and those of an organization of one repository: every commit list of up to
\* MaxMixed commits over every shape of author data
AllShapes ==
    CoreShapes
    \cup {Shape(RelNil, FALSE, <<>>, 0, "ok"),
          Shape(RelOk, FALSE, PlainCommits(1), 0, "createfail")}
    \cup {Shape(RelOk, FALSE, PlainCommits(n), 0, "ok") : n \in 0..MaxCommits}
    \cup {Shape(RelOk, FALSE, Redate(raw), 0, "ok") :
            raw \in UNION {AllCommitLists(n) : n \in 0..MaxMixed}}

RepoNames(n) == [k \in 1..n |-> "r" \o ToString(k)]

\* the first n names, or the same with the last repository named "timestamp"
NameLists(n) ==
    {RepoNames(n)} \cup
    (IF n = 0 THEN {} ELSE {[RepoNames(n) EXCEPT ![n] = "timestamp"]})

Names(names) == {names[k] : k \in 1..Len(names)}

World(names, shapes, listFailAt) ==
    [names |-> names,
     data |-> [nm \in Names(names) |-> MakeRepo(nm, shapes[nm])],
     listFailAt |-> listFailAt]

\* the organizations of n repositories
SmallWorlds(n) ==
    UNION {{World(names, f, 0) : f \in [Names(names) -> CoreShapes]} :
            names \in NameLists(n)}

SingleWorlds(n) ==
    IF n = 1
    THEN {World(<<"r1">>, [nm \in {"r1"} |-> sh], 0) : sh \in AllShapes}
    ELSE {}

\* an enumeration that fails on its first page
ListFailWorld(n) ==
    World(RepoNames(n),
          [nm \in Names(RepoNames(n)) |-> Shape(RelOk, FALSE, <<>>, 0, "ok")], 1)

EmptyDisk == [p \in {} |-> Nil]

OldSnapshot(name) ==
    [Owner |-> owner, Name |-> name, DefaultBranch |-> "main",
     LatestReleaseTag |-> "v0", LatestReleaseTime |-> 1,
     UnreleasedCommits |-> normalize(PlainCommits(1)),
     RepositoryURL |-> "h/" \o name]

\* what an earlier crawl of the organization left, "gone" since deleted
OldDisk ==
    LET old == Names(RepoNames(MaxRepos)) \cup {"gone"}
    IN [p \in {snapshotPath(nm) : nm \in old} \cup {timestampPath} |->
          IF p = timestampPath
          THEN [LastCrawled |-> 0]
          ELSE OldSnapshot((CHOOSE nm \in old : snapshotPath(nm) = p))]

InitCrawl ==
    /\ disk0 = disk
    /\ clock = 1
    /\ pc = "start"
    /\ repos = <<>>
    /\ i = 1
    /\ releaseData = Nil
    /\ repoDetail = Nil
    /\ commits = <<>>
    /\ repoData = Nil
    /\ processedCount = 0
    /\ out = <<>>
    /\ requests = <<>>
    /\ run = 1
    /\ snapshots = <<>>
    /\ index = Nil
    /\ repoPages = <<>>

\* <<remote, limit, disk>> of the crawls of small organizations
SmallInputs(n) ==
    {<<w, 0, OldDisk>> : w \in SmallWorlds(n)}
    \cup {<<w, MaxRepos - 1, OldDisk>> :
            w \in {v \in SmallWorlds(n) : v.names = RepoNames(MaxRepos)}}
    \cup {<<w, 0, EmptyDisk>> : w \in SingleWorlds(n)}
    \cup {<<ListFailWorld(n), 0, OldDisk>>}

Init ==
    /\ \E n \in 0..MaxRepos : \E x \in SmallInputs(n) :
            remote = x[1] /\ limit = x[2] /\ disk = x[3]
    /\ InitCrawl

Spec == Init /\ [][Next]_vars

-----------------------------------------------------------------------------
(* Crawls of organizations and commit ranges of several pages *)

MaxItems == MaxPages * perPage + 1

NumPages(total, pp) == IF total = 0 THEN 1 ELSE (total + pp - 1) \div pp

\* total repositories without a release; request failAt of the listing fails
ListWorld(total, failAt) ==
    World(RepoNames(total),
          [nm \in Names(RepoNames(total)) |-> Shape(RelErr, FALSE, <<>>, 0, "ok")],
          failAt)

\* one repository whose commit range has total commits
CompareWorld(total, failAt) ==
    World(<<"r1">>,
          [nm \in {"r1"} |-> Shape(RelOk, FALSE, PlainCommits(total), failAt, "ok")], 0)

\* the item counts next to a page boundary
BoundaryTotals(pp) ==
    {t \in 0..MaxItems : \E m \in 0..MaxPages : t \in {m * pp - 1, m * pp, m * pp + 1}}

LimitsFor(total) ==
    {0} \cup ({1, ListPerPage - 1, ListPerPage, ListPerPage + 1, total - 1, total,
               total + 1} \cap 1..(MaxItems + 1))

\* <<remote, limit, disk>> of the crawls over total items
PagingInputs(total) ==
    {<<ListWorld(total, 0), 1, OldDisk>>, <<CompareWorld(total, 0), 0, EmptyDisk>>}
    \cup (IF total \in BoundaryTotals(ListPerPage)
          THEN {<<ListWorld(total, 0), k, OldDisk>> : k \in LimitsFor(total)}
               \cup {<<ListWorld(total, f), 0, OldDisk>> :
                        f \in 1..NumPages(total, ListPerPage)}
          ELSE {})
    \cup (IF total \in BoundaryTotals(perPage)
          THEN {<<CompareWorld(total, f), 0, EmptyDisk>> :
                    f \in 1..NumPages(total, perPage)}
          ELSE {})

InitPaging ==
    /\ \E total \in 0..MaxItems : \E x \in PagingInputs(total) :
            remote = x[1] /\ limit = x[2] /\ disk = x[3]
    /\ InitCrawl

SpecPaging == InitPaging /\ [][Next]_vars

-----------------------------------------------------------------------------
(* What the printed lines, the requests and the disk show of a crawl *)

LinesOf(kinds) == {k \in 1..Len(out) : out[k].kind \in kinds}

SkippedCount == Cardinality(LinesOf({"skip"}))
FailedCount == Cardinality(LinesOf({"errdetail", "errcompare", "errwrite"}))
SavedCount == Cardinality(LinesOf({"saved"}))

\* lines of kind in kinds printed in iteration k of the loop
LinesAt(k, kinds) == {l \in LinesOf(kinds) : out[l].n = k}

Outcome(k) ==
    IF LinesAt(k, {"saved"}) # {} THEN "Persisted"
    ELSE IF LinesAt(k, {"skip"}) # {} THEN "Skipped"
    ELSE IF LinesAt(k, {"errdetail", "errcompare", "errwrite"}) # {} THEN "Failed"
    ELSE "none"

\* the iterations of the loop that have ended
Finished == {k \in 1..Len(repos) : k < i}

RequestsFor(repoName, apis) ==
    {k \in 1..Len(requests) : requests[k].repo = repoName /\ requests[k].api \in apis}

SamePath(p) ==
    /\ (p \in DOMAIN disk) = (p \in DOMAIN disk0)
    /\ p \in DOMAIN disk => disk[p] = disk0[p]

\* the Snapshot file of a repository, as the documentation names it
SnapshotFile(repoName) == "data/" \o repoName \o ".json"
TimestampFile == "data/timestamp.json"

\* the release resolver returns none for this repository
Unreleased(repoName) ==
    LET res == remote.data[repoName].release
    IN res.err \/ res.rel = Nil \/ res.rel.TagName = ""

\* the outcome a repository has by its own remote data alone
OwnOutcome(repoName) ==
    LET d == remote.data[repoName]
    IN IF Unreleased(repoName) THEN "Skipped"
       ELSE IF d.detail.err THEN "Failed"
       ELSE IF d.compareFailAt \in 1..NumPages(Len(d.commits), perPage) THEN "Failed"
       ELSE IF \E k \in 1..Len(d.commits) : d.commits[k].Commit = Nil THEN "none"
       ELSE IF d.write # "ok" THEN "Failed"
       ELSE "Persisted"

-----------------------------------------------------------------------------
(* C1 *)

\* [A (release, commits), B (release lookup throws), C (release, no commits)]
IsExample ==
    /\ remote.names = RepoNames(3)
    /\ limit = 0
    /\ remote.data["r1"] = Repo("r1", RelOk, FALSE, PlainCommits(MaxCommits), 0, "ok")
    /\ remote.data["r2"] = Repo("r2", RelErr, FALSE, <<>>, 0, "ok")
    /\ remote.data["r3"] = Repo("r3", RelOk, FALSE, <<>>, 0, "ok")

ExampleSnapshots ==
    /\ SnapshotFile("r1") \in DOMAIN disk
    /\ disk[SnapshotFile("r1")].Name = "r1"
    /\ Len(disk[SnapshotFile("r1")].UnreleasedCommits) = MaxCommits
    /\ SnapshotFile("r3") \in DOMAIN disk
    /\ disk[SnapshotFile("r3")].Name = "r3"
    /\ disk[SnapshotFile("r3")].UnreleasedCommits = <<>>
    /\ SamePath(SnapshotFile("r2"))
    /\ LinesOf({"complete"}) # {}
    /\ LinesOf({"timestamp", "warntimestamp"}) # {}

-----------------------------------------------------------------------------
(* C2 *)

\* the file at p is as it was before the crawl, or is the Crawl Timestamp
NoSnapshotWritten(p) ==
    \/ SamePath(p)
    \/ /\ pc = "done"
       /\ p = TimestampFile
       /\ p \in DOMAIN disk
       /\ disk[p] \in {Truncated, [LastCrawled |-> clock - 1]}

\* C2: for every enumerated repository for which the release resolver returns
\* none (lookup error, no release, empty tag name) the crawl writes no
\* Snapshot, makes no repository-detail and no commit-comparison request, and
\* counts it as skipped, neither as processed nor as failed.
C2_SkipOnNoRelease ==
    /\ \A k \in Finished :
          Unreleased(repos[k]) =>
             /\ NoSnapshotWritten(SnapshotFile(repos[k]))
             /\ RequestsFor(repos[k], {"Get", "CompareCommits"}) = {}
             /\ Cardinality(LinesAt(k, {"skip"})) = 1
             /\ LinesAt(k, {"saved", "errdetail", "errcompare", "errwrite"}) = {}
    /\ SkippedCount = Cardinality({k \in Finished : Unreleased(repos[k])})
    /\ processedCount = Cardinality({k \in Finished : Outcome(k) = "Persisted"})
    /\ \A k \in Finished : Outcome(k) = "Persisted" => ~Unreleased(repos[k])

\* a repository with an empty tag name was skipped after one that was persisted
C2_Witness ==
    \E k \in Finished :
       /\ remote.data[repos[k]].release = RelEmptyTag
       /\ Outcome(k) = "Skipped"
       /\ processedCount = 1
       /\ SnapshotFile(repos[k]) \in DOMAIN disk0

-----------------------------------------------------------------------------
(* C3 *)

\* the page numbers of the requests of one API for one repository, in order
PagesRequested(api, repoName) ==
    LET Mine(r) == r.api = api /\ r.repo = repoName
        sel == SelectSeq(requests, Mine)
    IN [k \in 1..Len(sel) |-> sel[k].page]

\* pages 1..n of a source, the first asked for as first (page 0 or 1)
PageRun(first, n) == [k \in 1..n |-> IF k = 1 THEN first ELSE k]

Enumerated == pc \notin {"start", "fatal"}

\* C3: with limit 0 listPublicRepos, and compareAllCommits, return exactly the
\* items of the source in source order (none missing, none twice) for every
\* item count, the last page exactly full included, and request each page of
\* the source once and no page after the last.
C3_PaginationComplete ==
    /\ (Enumerated /\ limit = 0) =>
          /\ repos = remote.names
          /\ PagesRequested("ListByOrg", "") =
                PageRun(0, NumPages(Len(remote.names), ListPerPage))
    /\ pc \in {"normalize", "write"} =>
          /\ commits = remote.data[repos[i]].commits
          /\ PagesRequested("CompareCommits", repos[i]) =
                PageRun(1, NumPages(Len(commits), perPage))

\* a commit range whose last page is exactly full has been collected
C3_Witness ==
    /\ pc = "normalize"
    /\ Len(commits) = MaxPages * perPage
    /\ Len(PagesRequested("CompareCommits", repos[i])) = MaxPages

-----------------------------------------------------------------------------
(* C4 *)

\* C4: with 0 < limit < total listPublicRepos returns exactly limit entries,
\* the prefix of the result with limit 0; with limit 0 it returns every
\* repository; and no page is requested once limit entries are accumulated.
C4_LimitTruncation ==
    (Enumerated /\ remote.listFailAt = 0) =>
       LET total == Len(remote.names)
           unlimited == listPublicRepos(remote.names, 0, 0).repos
       IN /\ limit = 0 => repos = remote.names
          /\ (0 < limit /\ limit < total) =>
                /\ Len(repos) = limit
                /\ repos = SubSeq(unlimited, 1, limit)
                /\ repos = SubSeq(remote.names, 1, limit)
                /\ Len(PagesRequested("ListByOrg", "")) = NumPages(limit, ListPerPage)

\* a limit of exactly one page on an organization of more than two pages
C4_Witness ==
    /\ Enumerated
    /\ limit = ListPerPage
    /\ Len(remote.names) = MaxItems
    /\ Len(repos) = ListPerPage
    /\ Len(PagesRequested("ListByOrg", "")) = 1

-----------------------------------------------------------------------------
(* C8 *)

\* the request the remote fails is one the enumeration makes
ListFailureDue ==
    LET total == Len(remote.names)
        wanted == IF limit > 0 THEN Min(limit, total) ELSE total
    IN remote.listFailAt \in 1..NumPages(wanted, ListPerPage)

\* C8: if a page request of listPublicRepos fails, the first or a later one,
\* listPublicRepos returns an error and no list, and the crawl stops there: no
\* release lookup, detail fetch or commit comparison, no file written, the
\* disk as it was.
C8_EnumerationFailureFatal ==
    ListFailureDue =>
       /\ listPublicRepos(remote.names, limit, remote.listFailAt).err
       /\ listPublicRepos(remote.names, limit, remote.listFailAt).repos = <<>>
       /\ pc \in {"start", "fatal"}
       /\ pc = "fatal" =>
             /\ repos = <<>>
             /\ disk = disk0
             /\ \A k \in 1..Len(requests) : requests[k].api = "ListByOrg"
             /\ Len(requests) <= remote.listFailAt
             /\ LinesOf({"processing", "saved", "timestamp", "warntimestamp",
                         "complete"}) = {}
             /\ ~ENABLED Next

\* the enumeration failed on its second page, with files of an earlier crawl
C8_Witness ==
    /\ pc = "fatal"
    /\ remote.listFailAt = 2
    /\ Len(requests) = 2
    /\ disk0 = OldDisk
    /\ disk = OldDisk

-----------------------------------------------------------------------------
(* C5 *)

\* the authored timestamp of a raw commit (the zero time if it has none)
RawDate(c) ==
    IF c.Commit = Nil \/ c.Commit.Author = Nil THEN 0 ELSE c.Commit.Author.Date

OldestFirst(raw) ==
    \A a, b \in 1..Len(raw) : a < b => RawDate(raw[a]) <= RawDate(raw[b])

NewestFirst(uc) ==
    \A a, b \in 1..Len(uc) : a < b => uc[a].Timestamp >= uc[b].Timestamp

\* uc holds the commits of raw in reverse: each once, at the mirrored place
IsReverseOf(uc, raw) ==
    /\ Len(uc) = Len(raw)
    /\ \A k \in 1..Len(raw) :
          /\ uc[k].SHA = raw[Len(raw) + 1 - k].SHA
          /\ uc[k].Timestamp = RawDate(raw[Len(raw) + 1 - k])
          /\ uc[k].URL = raw[Len(raw) + 1 - k].HTMLURL

\* C5: the commit sequence of a Snapshot is the exact reverse of the raw
\* commits the collector returned (every commit once, for every length), so
\* raw commits oldest first give a sequence non-increasing by authored
\* timestamp with the most recent commit at index 0; the Snapshot persisted
\* holds that sequence.
C5_NewestFirst ==
    /\ pc = "write" =>
          /\ IsReverseOf(repoData.UnreleasedCommits, commits)
          /\ OldestFirst(commits) => NewestFirst(repoData.UnreleasedCommits)
    /\ \A k \in Finished :
          (Outcome(k) = "Persisted" /\ pc # "done") =>
             /\ IsReverseOf(disk[SnapshotFile(repos[k])].UnreleasedCommits,
                            remote.data[repos[k]].commits)
             /\ OldestFirst(remote.data[repos[k]].commits) =>
                   NewestFirst(disk[SnapshotFile(repos[k])].UnreleasedCommits)

\* raw commits T1 < T2 < T3 were persisted as [T3, T2, T1]
C5_Witness ==
    /\ pc = "timestamp"
    /\ Outcome(1) = "Persisted"
    /\ Len(remote.data[repos[1]].commits) = 3
    /\ \A k \in 1..3 : RawDate(remote.data[repos[1]].commits[k]) = 10 + k
    /\ \A k \in 1..3 :
          disk[SnapshotFile(repos[1])].UnreleasedCommits[k].Timestamp = 14 - k

-----------------------------------------------------------------------------
(* C6 *)

\* the author of a raw commit by the documented precedence
AuthorByPrecedence(c) ==
    IF c.Author # Nil /\ c.Author.Login # "" THEN c.Author.Login
    ELSE IF c.Commit # Nil /\ c.Commit.Author # Nil /\ c.Commit.Author.Name # ""
    THEN c.Commit.Author.Name
    ELSE "unknown"

\* C6: for every raw commit, in every combination of present, absent or empty
\* platform author, commit metadata and raw author, a Commit Record is
\* produced, and its author is the login if present and non-empty, otherwise
\* the raw author name if present and non-empty, otherwise "unknown".
C6_AuthorResolution ==
    /\ pc # "panic"
    /\ pc = "write" =>
          \A k \in 1..Len(commits) :
             repoData.UnreleasedCommits[Len(commits) + 1 - k].Author =
                AuthorByPrecedence(commits[k])

\* the records that are produced carry the author of the precedence rule
C6_AuthorWhereProduced ==
    pc = "write" =>
       \A k \in 1..Len(commits) :
          repoData.UnreleasedCommits[Len(commits) + 1 - k].Author =
             AuthorByPrecedence(commits[k])

-----------------------------------------------------------------------------
(* C7 *)

TimestampLines == LinesOf({"timestamp", "warntimestamp"})

\* the Snapshot of every repository persisted in this crawl is on disk
SnapshotsKept ==
    \A k \in Finished :
       Outcome(k) = "Persisted" =>
          /\ SnapshotFile(repos[k]) \in DOMAIN disk
          /\ disk[SnapshotFile(repos[k])] # Truncated
          /\ "Name" \in DOMAIN disk[SnapshotFile(repos[k])]

\* C7: in every crawl whose enumeration succeeds the Crawl Timestamp is
\* written exactly once, after every enumerated repository has reached a
\* terminal state, whatever the mix of outcomes; a failed timestamp write
\* leaves the Snapshots written in this crawl unchanged and the crawl still
\* reports its summary.
C7_TimestampLast ==
    /\ Cardinality(TimestampLines) <= 1
    /\ TimestampLines # {} =>
          \A k \in 1..Len(repos) : Outcome(k) \in {"Persisted", "Skipped", "Failed"}
    /\ Enumerated => pc # "panic"
    /\ pc = "done" =>
          /\ Cardinality(TimestampLines) = 1
          /\ LinesOf({"complete"}) # {}
          /\ LinesOf({"warntimestamp"}) # {} => SnapshotsKept

\* the parts of C7 that the ordering of the code alone decides
C7_TimestampOrder ==
    /\ Cardinality(TimestampLines) <= 1
    /\ TimestampLines # {} =>
          \A k \in 1..Len(repos) : Outcome(k) \in {"Persisted", "Skipped", "Failed"}
    /\ pc = "done" => (Cardinality(TimestampLines) = 1 /\ LinesOf({"complete"}) # {})

\* a failed timestamp write keeps the Snapshots of this crawl
C7_FailedWriteKeepsSnapshots ==
    (pc = "done" /\ LinesOf({"warntimestamp"}) # {}) => SnapshotsKept

-----------------------------------------------------------------------------
(* C9 *)

\* the summary line printed at the end of the crawl
Summary == out[CHOOSE l \in LinesOf({"complete"}) : TRUE]

\* C9: each enumerated repository reaches exactly one terminal state among
\* Persisted, Skipped and Failed; at the end of the crawl the reported
\* processed count is the number of Snapshots written, a skipped count is
\* reported that is the number of repositories without a release, and
\* enumerated = processed + skipped + failed.
C9_OutcomeAccounting ==
    /\ \A k \in 1..Len(repos) :
          Cardinality(LinesAt(k, {"saved", "skip", "errdetail", "errcompare",
                                  "errwrite"})) <= 1
    /\ Enumerated => pc # "panic"
    /\ pc = "done" =>
          /\ \A k \in 1..Len(repos) : Outcome(k) \in {"Persisted", "Skipped", "Failed"}
          /\ Summary.n = SavedCount
          /\ "skipped" \in DOMAIN Summary
          /\ Summary.skipped = Cardinality({k \in 1..Len(repos) : Unreleased(repos[k])})
          /\ Len(repos) = SavedCount + SkippedCount + FailedCount

\* what of C9 holds of every crawl that reaches its end
C9_AccountingAtEnd ==
    /\ \A k \in 1..Len(repos) :
          Cardinality(LinesAt(k, {"saved", "skip", "errdetail", "errcompare",
                                  "errwrite"})) <= 1
    /\ pc = "done" =>
          /\ \A k \in 1..Len(repos) : Outcome(k) \in {"Persisted", "Skipped", "Failed"}
          /\ Summary.n = SavedCount
          /\ SkippedCount = Cardinality({k \in 1..Len(repos) : Unreleased(repos[k])})
          /\ Len(repos) = SavedCount + SkippedCount + FailedCount

-----------------------------------------------------------------------------
(* C10 *)

\* the record a crawl persists for a repository, from the remote data
NewRecord(repoName) ==
    LET d == remote.data[repoName]
        raw == d.commits
    IN [Owner |-> "org",
        Name |-> repoName,
        DefaultBranch |-> d.detail.repo.DefaultBranch,
        LatestReleaseTag |-> d.release.rel.TagName,
        LatestReleaseTime |-> d.release.rel.PublishedAt,
        UnreleasedCommits |->
            [k \in 1..Len(raw) |->
                LET c == raw[Len(raw) + 1 - k]
                IN [SHA |-> c.SHA, Author |-> AuthorByPrecedence(c),
                    Message |-> c.Commit.Message, Timestamp |-> RawDate(c),
                    URL |-> c.HTMLURL]],
        RepositoryURL |-> d.detail.repo.HTMLURL]

\* C10: processing a repository changes no file but its own Snapshot: a file
\* that is the Snapshot of no repository persisted in this crawl is as it was
\* before the crawl (the file of a repository whose write failed may be left
\* truncated), and the file of a persisted repository holds exactly the new
\* record, nothing of its previous content.
C10_SnapshotFrame ==
    \A p \in DOMAIN disk \cup DOMAIN disk0 :
       LET persisted == {k \in Finished :
                           SnapshotFile(repos[k]) = p /\ Outcome(k) = "Persisted"}
           failed == {k \in Finished :
                        SnapshotFile(repos[k]) = p /\ LinesAt(k, {"errwrite"}) # {}}
       IN IF pc = "done" /\ p = TimestampFile THEN TRUE
          ELSE IF persisted # {}
          THEN \A k \in persisted : p \in DOMAIN disk /\ disk[p] = NewRecord(repos[k])
          ELSE IF failed # {}
          THEN SamePath(p) \/ disk[p] = Truncated
          ELSE SamePath(p)

\* a Snapshot of an earlier crawl was replaced, after a repository that failed
\* and one that was skipped, the files of both as they were
C10_Witness ==
    /\ pc = "timestamp"
    /\ disk0 = OldDisk
    /\ Len(repos) = 3
    /\ Outcome(1) = "Failed"
    /\ Outcome(2) = "Skipped"
    /\ Outcome(3) = "Persisted"
    /\ disk[SnapshotFile(repos[1])] = OldSnapshot(repos[1])
    /\ disk[SnapshotFile(repos[2])] = OldSnapshot(repos[2])
    /\ disk[SnapshotFile(repos[3])] = NewRecord(repos[3])
    /\ disk[SnapshotFile("gone")] = OldSnapshot("gone")

-----------------------------------------------------------------------------
(* C11 *)

\* the paths of the writeJSON calls of the crawl so far, in order
WriteTargets ==
    LET IsWrite(l) == l.kind \in {"saved", "errwrite", "timestamp", "warntimestamp"}
        w == SelectSeq(out, IsWrite)
    IN [k \in 1..Len(w) |->
          IF w[k].kind \in {"saved", "errwrite"}
          THEN snapshotPath(w[k].repo)
          ELSE timestampPath]

\* C11: within one crawl no two file writes target the same path: the Snapshot
\* paths of two different repositories differ, and no Snapshot path is the
\* path of the Crawl Timestamp file.
C11_DistinctTargets ==
    /\ \A a, b \in 1..Len(repos) :
          a # b => snapshotPath(repos[a]) # snapshotPath(repos[b])
    /\ \A a \in 1..Len(repos) : snapshotPath(repos[a]) # timestampPath
    /\ \A a, b \in 1..Len(WriteTargets) : a # b => WriteTargets[a] # WriteTargets[b]

\* the Snapshot writes of one crawl target pairwise different paths
C11_SnapshotTargetsDistinct ==
    /\ \A a, b \in 1..Len(repos) :
          a # b => snapshotPath(repos[a]) # snapshotPath(repos[b])
    /\ \A a, b \in 1..Len(WriteTargets) :
          (a # b /\ WriteTargets[a] = WriteTargets[b]) =>
             timestampPath \in {WriteTargets[a]} /\ Len(WriteTargets) \in {a, b}

-----------------------------------------------------------------------------
(* The crawl run again: main is started once more with the same flags,     *)
(* against the same remote, on the files the run before left.              *)

\* the run has ended, and not before its first request to the remote
RanAgainstRemote ==
    \/ pc \in {"done", "panic"}
    \/ pc = "fatal" /\ LinesOf({"listfail"}) # {}

Restart ==
    /\ RanAgainstRemote
    /\ run < MaxRuns
    /\ run' = run + 1
    /\ disk0' = disk
    /\ pc' = "start"
    /\ repos' = <<>>
    /\ i' = 1
    /\ releaseData' = Nil
    /\ repoDetail' = Nil
    /\ commits' = <<>>
    /\ repoData' = Nil
    /\ processedCount' = 0
    /\ out' = <<>>
    /\ requests' = <<>>
    /\ UNCHANGED <<remote, limit, disk, clock, rendering>>

NextRecrawl ==
    \/ Next
    \/ Restart

\* <<remote, limit, disk>> of the crawls that are run again
RecrawlInputs(n) ==
    {<<w, 0, EmptyDisk>> : w \in SmallWorlds(n)}
    \cup {<<ListFailWorld(n), 0, EmptyDisk>>}

InitRecrawl ==
    /\ \E n \in 0..MaxRecrawlRepos : \E x \in RecrawlInputs(n) :
            remote = x[1] /\ limit = x[2] /\ disk = x[3]
    /\ InitCrawl

SpecRecrawl == InitRecrawl /\ [][NextRecrawl]_vars

-----------------------------------------------------------------------------
(* C12 *)

\* a run after the first has ended; disk0 is what the run before it left
Rerun == run > 1 /\ RanAgainstRemote

\* C12: after a second run against the unchanged remote every Snapshot file
\* has the content it had after the first run and the set of Snapshot files is
\* the same; only the Crawl Timestamp may differ.
C12_IdempotentRecrawl ==
    Rerun =>
       /\ \A k \in 1..Len(repos) :
             Outcome(k) = "Persisted" => SamePath(SnapshotFile(repos[k]))
       /\ \A p \in (DOMAIN disk \cup DOMAIN disk0) \ {TimestampFile} : SamePath(p)

\* every file but the one at the path of the Crawl Timestamp is as the run
\* before left it
C12_IdempotentOffTimestampPath ==
    Rerun => \A p \in (DOMAIN disk \cup DOMAIN disk0) \ {TimestampFile} : SamePath(p)

-----------------------------------------------------------------------------
(* The render phase: generateIndexPage and generateRepoPage. Times are in  *)
(* hours; the zero time.Time is 0.                                         *)

IsZero(t) == t = 0

\* int(d.Hours() / 24): the conversion to int truncates toward zero
Days(hours) == IF hours >= 0 THEN hours \div 24 ELSE -((-hours) \div 24)

\* math.Round of num/den (den > 0): half away from zero
Round(num, den) ==
    IF num >= 0 THEN (2 * num + den) \div (2 * den)
    ELSE -((2 * (-num) + den) \div (2 * den))

\* the factor is fn/fd
interpolateColor(r1, g1, b1, r2, g2, b2, fn, fd) ==
    <<Round(r1 * fd + fn * (r2 - r1), fd),
      Round(g1 * fd + fn * (g2 - g1), fd),
      Round(b1 * fd + fn * (b2 - b1), fd)>>

HexDigits == <<"0", "1", "2", "3", "4", "5", "6", "7", "8", "9",
               "a", "b", "c", "d", "e", "f">>

RECURSIVE Hex(_)
Hex(n) == IF n < 16 THEN HexDigits[n + 1] ELSE Hex(n \div 16) \o HexDigits[(n % 16) + 1]

\* fmt's %02x: the sign counts for the width
Hex02(n) ==
    IF n < 0 THEN "-" \o Hex(-n)
    ELSE IF n < 16 THEN "0" \o Hex(n)
    ELSE Hex(n)

\* the normalized value is num/den
getColorForValue(num, den) ==
    LET rgb == IF 2 * num < den
               THEN interpolateColor(16, 185, 129, 251, 191, 36, 2 * num, den)
               ELSE interpolateColor(251, 191, 36, 239, 68, 68, 2 * num - den, den)
    IN "#" \o Hex02(rgb[1]) \o Hex02(rgb[2]) \o Hex02(rgb[3])

getTextColor(num, den) == IF 5 * num > 3 * den THEN "#ffffff" ELSE "#000000"

\* generateIndexPage's daysBehind of one repository
indexDaysBehind(repo) ==
    LET commitCount == Len(repo.UnreleasedCommits)
    IN IF commitCount > 0 /\ Len(repo.UnreleasedCommits) > 0
          /\ ~IsZero(repo.LatestReleaseTime)
       THEN Days(repo.UnreleasedCommits[1].Timestamp - repo.LatestReleaseTime)
       ELSE 0

\* time.Since(repo.LatestReleaseTime) in days
daysSinceRelease(repo, now) ==
    IF ~IsZero(repo.LatestReleaseTime) THEN Days(now - repo.LatestReleaseTime) ELSE 0

\* "if min == -1 || v < min { min = v }" over the values, from the k-th on
RECURSIVE trackMin(_, _, _)
trackMin(vals, k, min) ==
    IF k > Len(vals) THEN min
    ELSE trackMin(vals, k + 1, IF min = -1 \/ vals[k] < min THEN vals[k] ELSE min)

\* "if v > max { max = v }"
RECURSIVE trackMax(_, _, _)
trackMax(vals, k, max) ==
    IF k > Len(vals) THEN max
    ELSE trackMax(vals, k + 1, IF vals[k] > max THEN vals[k] ELSE max)

\* the tracked minimum, with "if min == -1 { min = 0 }" after the loop
minOf(vals) == LET min == trackMin(vals, 1, -1) IN IF min = -1 THEN 0 ELSE min

maxOf(vals) == trackMax(vals, 1, 0)

\* the colors of one cell
cellColors(v, min, max) ==
    LET range == max - min
    IN IF range > 0
       THEN [Bg |-> getColorForValue(v - min, range),
             Text |-> getTextColor(v - min, range)]
       ELSE [Bg |-> getColorForValue(0, 1), Text |-> getTextColor(0, 1)]

generateIndexPage(loaded, now) ==
    LET n == Len(loaded)
        commitCounts == [k \in 1..n |-> Len(loaded[k].UnreleasedCommits)]
        daysBehinds == [k \in 1..n |-> indexDaysBehind(loaded[k])]
        daysSinces == [k \in 1..n |-> daysSinceRelease(loaded[k], now)]
    IN [Owner |-> IF n > 0 THEN loaded[1].Owner ELSE "",
        TotalRepos |-> n,
        ReposWithCommits |-> Cardinality({k \in 1..n : commitCounts[k] > 0}),
        MinCommits |-> minOf(commitCounts),
        MaxCommits |-> maxOf(commitCounts),
        MinDaysBehind |-> minOf(daysBehinds),
        MaxDaysBehind |-> maxOf(daysBehinds),
        MinDaysSinceRelease |-> minOf(daysSinces),
        MaxDaysSinceRelease |-> maxOf(daysSinces),
        Repos |->
          [k \in 1..n |->
             [Name |-> loaded[k].Name,
              CommitCount |-> commitCounts[k],
              DaysBehind |-> daysBehinds[k],
              DaysSinceRelease |-> daysSinces[k],
              LatestRelease |-> loaded[k].LatestReleaseTag,
              URL |-> loaded[k].Name \o ".html",
              CommitCountColors |->
                 cellColors(commitCounts[k], minOf(commitCounts), maxOf(commitCounts)),
              DaysBehindColors |->
                 cellColors(daysBehinds[k], minOf(daysBehinds), maxOf(daysBehinds)),
              DaysSinceColors |->
                 cellColors(daysSinces[k], minOf(daysSinces), maxOf(daysSinces))]]]

generateRepoPage(repo, now) ==
    LET commitCount == Len(repo.UnreleasedCommits)
        daysBehind == IF commitCount > 0 /\ ~IsZero(repo.LatestReleaseTime)
                      THEN Days(repo.UnreleasedCommits[1].Timestamp
                                - repo.LatestReleaseTime)
                      ELSE 0
    IN [Name |-> repo.Name,
        UnreleasedCommits |-> repo.UnreleasedCommits,
        LatestReleaseTime |-> repo.LatestReleaseTime,
        DaysBehind |-> daysBehind,
        DaysSinceRelease |-> daysSinceRelease(repo, now)]

\* generateIndexPage; an error of it is fatal. Time passes before the pages
\* of the repositories are made.
GenerateIndexPage ==
    /\ pc = "index"
    /\ \E fault \in {"ok", "fail"} :
         IF fault = "fail"
         THEN /\ pc' = "fatal"
              /\ UNCHANGED <<index, clock>>
         ELSE /\ index' = generateIndexPage(snapshots, clock)
              /\ pc' = "pages"
              /\ \E dt \in {0, 1} : clock' = clock + dt
    /\ UNCHANGED <<remote, limit, disk, disk0, repos, i, releaseData,
                   repoDetail, commits, repoData, processedCount, out, requests,
                   run, snapshots, repoPages>>

\* generateRepoPage for the next repository; an error of it is printed
GenerateRepoPage ==
    /\ pc = "pages"
    /\ \E fault \in {"ok", "fail"} :
         repoPages' = Append(repoPages,
                             IF fault = "fail" THEN Nil
                             ELSE generateRepoPage(snapshots[Len(repoPages) + 1],
                                                   clock))
    /\ pc' = IF Len(repoPages) + 1 = Len(snapshots) THEN "generated" ELSE "pages"
    /\ UNCHANGED <<remote, limit, disk, disk0, clock, repos, i, releaseData,
                   repoDetail, commits, repoData, processedCount, out, requests,
                   run, snapshots, index>>

NextRender ==
    \/ GenerateIndexPage
    \/ GenerateRepoPage

\* a Commit Record authored at hour t
RecordAt(t) ==
    [SHA |-> "c" \o ToString(t), Author |-> "alice", Message |-> "m",
     Timestamp |-> t, URL |-> "u" \o ToString(t)]

\* release times (0: none recorded) and commit lists of the Snapshots rendered:
\* the release published at hour 100, the commits authored up to two days
\* before and three days after it, the newest first or not
SnapshotShapes ==
    {<<0, <<172>>>>, <<100, <<>>>>,
     <<100, <<52>>>>, <<100, <<76>>>>, <<100, <<77>>>>, <<100, <<172>>>>,
     <<100, <<172, 76>>>>, <<100, <<76, 172>>>>}

Snapshot(name, shape) ==
    [Owner |-> owner, Name |-> name, DefaultBranch |-> "main",
     LatestReleaseTag |-> "v1", LatestReleaseTime |-> shape[1],
     UnreleasedCommits |-> [k \in 1..Len(shape[2]) |-> RecordAt(shape[2][k])],
     RepositoryURL |-> "h/" \o name]

\* the Snapshots runGenerate loaded: one or more, sorted by name
SnapshotLists(n) ==
    {[k \in 1..n |-> Snapshot(RepoNames(n)[k], f[k])] : f \in [1..n -> SnapshotShapes]}

InitRender ==
    /\ \E n \in 1..MaxSnapshots : snapshots \in SnapshotLists(n)
    /\ remote = Nil
    /\ limit = 0
    /\ disk = EmptyDisk
    /\ disk0 = EmptyDisk
    /\ clock = 200
    /\ pc = "index"
    /\ repos = <<>>
    /\ i = 1
    /\ releaseData = Nil
    /\ repoDetail = Nil
    /\ commits = <<>>
    /\ repoData = Nil
    /\ processedCount = 0
    /\ out = <<>>
    /\ requests = <<>>
    /\ run = 1
    /\ index = Nil
    /\ repoPages = <<>>

SpecRender == InitRender /\ [][NextRender]_vars

-----------------------------------------------------------------------------
(* C13 *)

\* the whole days in a number of hours, of the sign of the hours
WholeDays(hours) ==
    CHOOSE d \in -30..30 :
       IF hours >= 0 THEN 24 * d <= hours /\ hours < 24 * (d + 1)
       ELSE 24 * d >= hours /\ hours > 24 * (d - 1)

\* the greatest authored timestamp of a non-empty commit list
MostRecent(uc) ==
    CHOOSE t \in {uc[k].Timestamp : k \in 1..Len(uc)} :
       \A k \in 1..Len(uc) : uc[k].Timestamp <= t

\* Days Behind as documented: from the release to the most recent commit
DaysBehindOfMostRecent(snap) ==
    IF Len(snap.UnreleasedCommits) = 0 \/ snap.LatestReleaseTime = 0 THEN 0
    ELSE WholeDays(MostRecent(snap.UnreleasedCommits) - snap.LatestReleaseTime)

\* Days Behind from the commit at index 0
DaysBehindOfFirst(snap) ==
    IF Len(snap.UnreleasedCommits) = 0 \/ snap.LatestReleaseTime = 0 THEN 0
    ELSE WholeDays(snap.UnreleasedCommits[1].Timestamp - snap.LatestReleaseTime)

\* the pages of the repositories that were made
PagesMade == {k \in 1..Len(repoPages) : repoPages[k] # Nil}

\* C13: for every Snapshot the Days Behind on the index page and on the
\* repository page is the whole number of days from the release's publish time
\* to the commit with the greatest authored timestamp, 0 for an empty commit
\* list or a zero release time, and both pages show the same value.
C13_DaysBehind ==
    /\ index # Nil =>
          \A k \in 1..Len(snapshots) :
             index.Repos[k].DaysBehind = DaysBehindOfMostRecent(snapshots[k])
    /\ \A k \in PagesMade :
          /\ repoPages[k].DaysBehind = DaysBehindOfMostRecent(snapshots[k])
          /\ repoPages[k].DaysBehind = index.Repos[k].DaysBehind

\* both pages show the whole days from the release to the commit at index 0
C13_DaysBehindOfIndexZero ==
    /\ index # Nil =>
          \A k \in 1..Len(snapshots) :
             index.Repos[k].DaysBehind = DaysBehindOfFirst(snapshots[k])
    /\ \A k \in PagesMade :
          /\ repoPages[k].DaysBehind = DaysBehindOfFirst(snapshots[k])
          /\ repoPages[k].DaysBehind = index.Repos[k].DaysBehind

-----------------------------------------------------------------------------
(* C14 *)

Green == "#10b981"
Red == "#ef4444"

\* value v of a metric is scaled between the tracked min and max
Scaled(v, min, max, colors) ==
    /\ min <= v
    /\ v <= max
    /\ max - min > 0 =>
          /\ 0 <= v - min /\ v - min <= max - min
          /\ v = min => colors.Bg = Green
          /\ v = max => colors.Bg = Red

\* the values of the three metrics are all scaled on the index page
AllScaled ==
    \A k \in 1..Len(index.Repos) :
       LET s == index.Repos[k]
       IN /\ Scaled(s.CommitCount, index.MinCommits, index.MaxCommits,
                    s.CommitCountColors)
          /\ Scaled(s.DaysBehind, index.MinDaysBehind, index.MaxDaysBehind,
                    s.DaysBehindColors)
          /\ Scaled(s.DaysSinceRelease, index.MinDaysSinceRelease,
                    index.MaxDaysSinceRelease, s.DaysSinceColors)

\* C14: for every non-empty list of Snapshots and each of the three metrics
\* the tracked minimum is at most, and the tracked maximum at least, every
\* repository's value, so the normalized value lies in [0, 1], the lowest
\* value green and the highest red, negative values and -1 included.
C14_ColorScaling == index # Nil => AllScaled

\* the same where no repository has a negative value of a metric
C14_ScalingOfNonNegative ==
    (index # Nil /\ \A k \in 1..Len(index.Repos) : index.Repos[k].DaysBehind >= 0)
       => AllScaled

====
